---- MODULE Spec2Model ----
(***************************************************************************)
(* A model of the color organ's event engine: the ADSR envelope state      *)
(* machine (src/src/envelope.rs), the HSLuv color (src/src/color.rs), the  *)
(* color event (src/src/event.rs), the slot store of active events         *)
(* (src/src/store.rs), the fixture event buffer (src/src/fixture.rs), the  *)
(* envelope generator (src/src/envelope_gen.rs), the banks                 *)
(* (src/src/bank.rs) and the organ (src/src/organ.rs).                     *)
(*                                                                         *)
(* Durations are integers (a count of time units).  UnipolarFloat values   *)
(* are exact rationals <<n, d>> in lowest terms, so that the arithmetic of *)
(* the envelope edges is computed, not assumed.  Option::None is the empty *)
(* tuple, and the result of a division by a zero duration is NaNVal.  The  *)
(* coordinates of a color are exact rationals too, its hue the direction   *)
(* of its angle and its saturation the square of the radius.               *)
(***************************************************************************)
EXTENDS Integers, Sequences, FiniteSets, TLC

\* ------------------------------------------------------------------ bounds
\* Largest attack / decay / release duration of an envelope's parameters.
MaxDur == 2
\* Largest delta_t handed to one update_state call.
MaxDelta == 2
\* Cap on the time accumulated by one envelope (keeps the counters finite).
MaxTime == 6
\* Largest number of slots of the event store.
MaxSlots == 3
\* Largest listener count handed to ColorEventStore::add.
MaxListeners == 2
\* Largest number of events in one fixture's buffer.
MaxBuf == 3
\* Largest number of events of the organ allocated at once.
MaxEvents == 2
\* Cap on the time accumulated by an unreleased event of the organ.
MaxOrganTime == 4
\* The most calls made on one color accumulator.
MaxBlend == 2

\* ------------------------------------------------------- UnipolarFloat
RECURSIVE GCD(_, _)
GCD(a, b) == IF b = 0 THEN a ELSE GCD(b, a % b)

\* The rational n/d in lowest terms (n >= 0, d > 0).
Rat(n, d) == LET g == GCD(n, d) IN <<n \div g, d \div g>>

ZERO == <<0, 1>>
ONE == <<1, 1>>
None == <<>>
NaNVal == <<0, 0>>

IsNum(v) == v # None /\ v # NaNVal

RAdd(a, b) == Rat(a[1] * b[2] + b[1] * a[2], a[2] * b[2])
RMul(a, b) == Rat(a[1] * b[1], a[2] * b[2])
RLess(a, b) == a[1] * b[2] < b[1] * a[2]
\* UnipolarFloat subtraction, clamped to the unit interval.
RSub(a, b) == IF RLess(a, b) THEN ZERO ELSE Rat(a[1] * b[2] - b[1] * a[2], a[2] * b[2])
\* UnipolarFloat::new of the quotient of two durations, clamped to [0, 1].
\* A zero divisor has no defined quotient.
UnipolarNew(n, d) == IF d = 0 THEN NaNVal ELSE IF n >= d THEN ONE ELSE Rat(n, d)

\* ------------------------------------------------------------ envelope.rs
linear_edge(alpha) == alpha

rising_edge(alpha, offset) ==
    IF alpha = NaNVal THEN NaNVal
    ELSE RAdd(offset, RMul(linear_edge(alpha), RSub(ONE, offset)))

falling_edge_noinvert(alpha, offset) == rising_edge(alpha, offset)

falling_edge(alpha, offset) ==
    IF alpha = NaNVal THEN NaNVal
    ELSE rising_edge(RSub(ONE, alpha), offset)

\* The levels and durations envelope parameters are drawn from.
AttackLevels == {ZERO, <<2, 5>>}
SustainLevels == {ZERO, <<3, 5>>, ONE}
Durations == 0..MaxDur

EnvelopeParameters ==
    [attack: Durations, attack_level: AttackLevels, decay: Durations,
     sustain_level: SustainLevels, release: Durations]

\* The branch conditions of Envelope::update_value, in the order tested.
in_attack_strict(e) == e.elapsed < e.parameters.attack
in_attack(e) == e.elapsed <= e.parameters.attack

in_decay(e) == e.elapsed <= e.parameters.attack + e.parameters.decay

sustain_is_zero_never(e) == FALSE
sustain_is_zero(e) == e.parameters.sustain_level = ZERO

release_complete_early(e) == e.release_elapsed + 1 >= e.parameters.release
release_complete_strict(e) == e.release_elapsed > e.parameters.release
release_complete(e) == e.release_elapsed >= e.parameters.release

\* The branch Envelope::update_value takes for the state e.
Phase(e) ==
    IF in_attack(e) THEN "attack"
    ELSE IF in_decay(e) THEN "decay"
    ELSE IF sustain_is_zero(e) THEN "closed_zero_sustain"
    ELSE IF ~e.released THEN "sustain"
    ELSE IF release_complete(e) THEN "closed_released"
    ELSE "release"

update_value(e) ==
    LET p == e.parameters
        ph == Phase(e)
        v == CASE ph = "attack" ->
                    LET alpha == IF p.attack = 0 THEN ONE
                                 ELSE UnipolarNew(e.elapsed, p.attack)
                    IN rising_edge(alpha, p.attack_level)
               [] ph = "decay" ->
                    LET decay_elapsed == e.elapsed - p.attack
                        alpha == UnipolarNew(decay_elapsed, p.decay)
                    IN falling_edge(alpha, p.sustain_level)
               [] ph = "closed_zero_sustain" -> None
               [] ph = "sustain" -> p.sustain_level
               [] ph = "closed_released" -> None
               [] ph = "release" ->
                    LET alpha == UnipolarNew(e.release_elapsed, p.release)
                        f == falling_edge(alpha, ZERO)
                    IN IF f = NaNVal THEN NaNVal ELSE RMul(p.sustain_level, f)
    IN [e EXCEPT !.value = v]

Envelope_new_attack_level(parameters) ==
    [parameters |-> parameters, elapsed |-> 0, released |-> FALSE,
     value |-> parameters.attack_level, release_elapsed |-> 0]

Envelope_new(parameters) ==
    update_value([parameters |-> parameters, elapsed |-> 0, released |-> FALSE,
                  value |-> None, release_elapsed |-> 0])

Envelope_release_and_update(e) == update_value([e EXCEPT !.released = TRUE])

\* release() that does not set the flag.
Envelope_release_ignored(e) == e

Envelope_release(e) == [e EXCEPT !.released = TRUE]

Envelope_update_state_no_short_circuit(e, delta_t) ==
    update_value([e EXCEPT !.elapsed = @ + delta_t,
                           !.release_elapsed = IF e.released THEN @ + delta_t ELSE @])

\* update_state that measures the release only once the decay is over.
Envelope_update_state_release_after_decay(e, delta_t) ==
    IF e.value = None THEN e
    ELSE update_value([e EXCEPT !.elapsed = @ + delta_t,
                                !.release_elapsed =
                                    IF e.released /\ ~in_decay(e)
                                    THEN @ + delta_t ELSE @])

\* update_state whose value lags a call behind: the value is computed
\* before the time is added.
Envelope_update_state_lagging(e, delta_t) ==
    IF e.value = None THEN e
    ELSE [update_value(e) EXCEPT
             !.elapsed = @ + delta_t,
             !.release_elapsed = IF e.released THEN @ + delta_t ELSE @]

Envelope_update_state(e, delta_t) ==
    IF e.value = None THEN e
    ELSE update_value([e EXCEPT !.elapsed = @ + delta_t,
                                !.release_elapsed = IF e.released THEN @ + delta_t ELSE @])

\* attack_complete from the end of the attack on, that instant included.
attack_complete_inclusive(e) == e.elapsed >= e.parameters.attack

attack_complete(e) == e.elapsed > e.parameters.attack

\* ---------------------------------------------------------------- color.rs
\* A Phase (hue) is kept as the direction of its angle: the primitive
\* integer vector <<dx, dy>> on its ray, so hue 0 is <<1, 0>> and hue 1/4 is
\* <<0, 1>>.  The angle of the origin is not a number.  A saturation is kept
\* as its square, which is rational wherever the coordinates are.
NaNHue == <<0, 0>>
Abs(n) == IF n < 0 THEN -n ELSE n

\* The hues colors are constructed with: 0, 1/4, 1/2 and 3/4 of a turn.
AxisHues == {<<1, 0>>, <<0, 1>>, <<-1, 0>>, <<0, -1>>}

\* The square root of a rational that is a perfect square.
RSqrt(q) ==
    <<CHOOSE k \in 0..q[1] : k * k = q[1], CHOOSE k \in 0..q[2] : k * k = q[2]>>

HsluvColor_new(hue, saturation, lightness) ==
    [hue |-> hue, saturation_sq |-> RMul(saturation, saturation),
     lightness |-> lightness, rect |-> None]

\* impl Default for HsluvColor: black.
HsluvColor_default == HsluvColor_new(<<1, 0>>, ONE, ZERO)

\* HsluvColor::rect: the memoized coordinates, or saturation * (cos, sin) of
\* the hue (colors without coordinates have an axis hue).
rect(c) ==
    IF c.rect # None THEN c.rect
    ELSE LET s == RSqrt(c.saturation_sq)
         IN <<RMul(s, <<c.hue[1], 1>>), RMul(s, <<c.hue[2], 1>>)>>

\* The color after a call of rect() on it: the coordinates are memoized.
memoized(c) == [c EXCEPT !.rect = rect(c)]

with_envelope(c, envelope_) == [c EXCEPT !.lightness = RMul(@, envelope_)]

enveloped(c, envelope_) ==
    IF envelope_ = None THEN HsluvColor_default ELSE with_envelope(c, envelope_)

\* polar: the radius (squared) and the angle of the point (x, y).
polar(x, y) ==
    LET p == x[1] * y[2]
        q == y[1] * x[2]
        g == GCD(Abs(p), Abs(q))
    IN [r_sq |-> RAdd(RMul(x, x), RMul(y, y)),
        theta |-> IF g = 0 THEN NaNHue ELSE <<p \div g, q \div g>>]

lerp(v_old, v_new, alpha) ==
    RAdd(RMul(alpha, v_new), RMul(RSub(ONE, alpha), v_old))

\* The blend of lightness by addition: self's lightness plus the target's
\* scaled by alpha, within the unit interval.
weighted_interpolation_additive(self, target, alpha) ==
    LET sum == RAdd(self.lightness, RMul(target.lightness, alpha))
        x == lerp(rect(self)[1], rect(target)[1], alpha)
        y == lerp(rect(self)[2], rect(target)[2], alpha)
        pl == polar(x, y)
    IN [hue |-> pl.theta,
        saturation_sq |-> IF RLess(ONE, pl.r_sq) THEN ONE ELSE pl.r_sq,
        lightness |-> IF RLess(ONE, sum) THEN ONE ELSE sum,
        rect |-> <<x, y>>]

weighted_interpolation(self, target, alpha) ==
    LET outgoing_lightness == RMul(self.lightness, RSub(ONE, alpha))
        lightness == IF RLess(target.lightness, outgoing_lightness)
                     THEN outgoing_lightness
                     ELSE target.lightness
        x == lerp(rect(self)[1], rect(target)[1], alpha)
        y == lerp(rect(self)[2], rect(target)[2], alpha)
        pl == polar(x, y)
    IN [hue |-> pl.theta,
        saturation_sq |-> IF RLess(ONE, pl.r_sq) THEN ONE ELSE pl.r_sq,
        lightness |-> lightness,
        rect |-> <<x, y>>]

\* The colors handed to note_on.
Colors ==
    {HsluvColor_new(<<1, 0>>, ONE, ONE), HsluvColor_new(<<0, 1>>, ONE, <<1, 2>>)}

\* ---------------------------------------------------------------- event.rs
ReleaseIds == {7, 9}

\* ColorEvent::current_value.
current_value(ev) == enveloped(ev.color, ev.envelope.value)

ColorEvent_new(color, envelope_, release_id) ==
    LET event == [color |-> color, envelope |-> envelope_,
                  release_id |-> release_id, value |-> None]
    IN [event EXCEPT !.value = current_value(event)]

ColorEvent_release(ev, release_id) ==
    IF ev.release_id = release_id
    THEN [ev EXCEPT !.envelope = Envelope_release(@)]
    ELSE ev

ColorEvent_closed(ev) == ev.envelope.value = None

\* ColorEvent::update_state without the refresh of the cached value.
ColorEvent_update_state_stale(ev, delta_t) ==
    [ev EXCEPT !.envelope = Envelope_update_state(@, delta_t)]

ColorEvent_update_state(ev, delta_t) ==
    LET event == [ev EXCEPT !.envelope = Envelope_update_state(@, delta_t)]
    IN [event EXCEPT !.value = current_value(event)]

\* ---------------------------------------------------------------- store.rs
\* A slot is None or an ActiveColorEvent.
ActiveColorEvent(event, listener_count) ==
    [event |-> event, listener_count |-> listener_count]

\* The index (from 1) of the first empty slot, 0 when there is none.
first_free_first(s) == IF Len(s) > 0 THEN 1 ELSE 0

\* No slot is ever found empty.
first_free_never(s) == 0

first_free(s) ==
    IF \E i \in 1..Len(s) : s[i] = None
    THEN CHOOSE i \in 1..Len(s) : s[i] = None /\ \A j \in 1..(i - 1) : s[j] # None
    ELSE 0

ColorEventStore_add(s, event, listener_count) ==
    LET i == first_free(s)
    IN IF i # 0
       THEN [s EXCEPT ![i] = ActiveColorEvent(event, listener_count)]
       ELSE Append(s, ActiveColorEvent(event, listener_count))

\* The ColorEventID that add returns.
ColorEventStore_add_id(s) ==
    IF first_free(s) # 0 THEN first_free(s) - 1 ELSE Len(s)

\* get on the slot of index i (from 1), which the vector holds.
ColorEventStore_get(s, i) == IF s[i] = None THEN None ELSE s[i].event

ColorEventStore_active_event_count(s) ==
    Cardinality({i \in 1..Len(s) : s[i] # None})

\* unlisten on the slot of index i (from 1), which the vector holds.
ColorEventStore_unlisten_clear(s, i) == [s EXCEPT ![i] = None]

ColorEventStore_unlisten(s, i) ==
    IF s[i] = None THEN s
    ELSE IF s[i].listener_count - 1 = 0
         THEN [s EXCEPT ![i] = None]
         ELSE [s EXCEPT ![i].listener_count = @ - 1]

ColorEventStore_release_all(s, release_id) ==
    [i \in 1..Len(s) |->
        IF s[i] # None
        THEN [s[i] EXCEPT !.event.envelope = Envelope_release(@)]
        ELSE s[i]]

ColorEventStore_release(s, release_id) ==
    [i \in 1..Len(s) |->
        IF s[i] # None /\ s[i].event.release_id = release_id
        THEN [s[i] EXCEPT !.event.envelope = Envelope_release(@)]
        ELSE s[i]]

\* -------------------------------------------------------------- fixture.rs
\* Iterator::position: the index (from 1) of the newest event whose attack
\* is complete, 0 for None.
position_oldest(buf) ==
    IF \E i \in 1..Len(buf) : attack_complete(buf[i].envelope)
    THEN CHOOSE i \in 1..Len(buf) :
            /\ attack_complete(buf[i].envelope)
            /\ \A j \in (i + 1)..Len(buf) : ~attack_complete(buf[j].envelope)
    ELSE 0

position(buf) ==
    IF \E i \in 1..Len(buf) : attack_complete(buf[i].envelope)
    THEN CHOOSE i \in 1..Len(buf) :
            /\ attack_complete(buf[i].envelope)
            /\ \A j \in 1..(i - 1) : ~attack_complete(buf[j].envelope)
    ELSE 0

\* add_event at the other end of the buffer, the oldest position.
Fixture_add_event_oldest(buf, event) == Append(buf, event)

Fixture_add_event(buf, event) == <<event>> \o buf

Fixture_clear(buf) == <<>>

Fixture_update_clear_complete(buf) ==
    IF buf = <<>> THEN buf
    ELSE LET newest_complete == position(buf)
             truncated == IF newest_complete # 0
                          THEN SubSeq(buf, 1, newest_complete)
                          ELSE buf
         IN IF Len(truncated) = 1 /\ attack_complete(truncated[1].envelope)
            THEN <<>>
            ELSE truncated

\* update without its last step: the buffer is truncated after the newest
\* attack-complete event and a single closed event is kept.
Fixture_update_truncate_only(buf) ==
    IF buf = <<>> THEN buf
    ELSE LET newest_complete == position(buf)
         IN IF newest_complete # 0
            THEN SubSeq(buf, 1, newest_complete)
            ELSE buf

Fixture_update(buf) ==
    IF buf = <<>> THEN buf
    ELSE LET newest_complete == position(buf)
             truncated == IF newest_complete # 0
                          THEN SubSeq(buf, 1, newest_complete)
                          ELSE buf
         IN IF Len(truncated) = 1 /\ ColorEvent_closed(truncated[1])
            THEN <<>>
            ELSE truncated

\* The fold of Fixture::render over the events i, i - 1, .., 1 of buf (from
\* older to newer) with the color accumulated so far.
RECURSIVE render_fold(_, _, _)
render_fold(buf, i, color_accum) ==
    IF i = 0 THEN color_accum
    ELSE LET e == buf[i]
         IN IF attack_complete(e.envelope)
            THEN render_fold(buf, i - 1, e.value)
            ELSE render_fold(buf, i - 1,
                    weighted_interpolation(
                        color_accum, e.value,
                        IF e.envelope.value = None THEN ZERO ELSE e.envelope.value))

Fixture_render_newest(buf) ==
    IF buf = <<>> THEN HsluvColor_default ELSE buf[1].value

Fixture_render(buf) ==
    IF buf = <<>> THEN HsluvColor_default
    ELSE render_fold(buf, Len(buf) - 1, buf[Len(buf)].value)

\* ---------------------------------------------------------- envelope_gen.rs
\* EnvelopeGeneratorState::default; time_scale is one second, two time units.
EnvelopeGeneratorState_default ==
    [attack |-> ONE, attack_level |-> ZERO, decay |-> ONE,
     sustain_level |-> ONE, release |-> ONE, time_scale |-> 2]

\* Duration::mul_f64 (the products of the model are whole time units).
mul_f64(duration, v) == (duration * v[1]) \div v[2]

generate(state) ==
    [attack |-> mul_f64(state.time_scale, state.attack),
     attack_level |-> state.attack_level,
     decay |-> mul_f64(state.time_scale, state.decay),
     sustain_level |-> state.sustain_level,
     release |-> mul_f64(state.time_scale, state.release)]

\* The StateChange messages sent to the generator: Attack(0).
StateChanges == {[field |-> "attack", v |-> ZERO]}

update_from_state_change(state, sc) == [state EXCEPT ![sc.field] = sc.v]

\* ------------------------------------------------------------------ bank.rs
\* Option<usize>::Some(x); None is the empty tuple.
Some(x) == <<x>>

FixtureSet(fixtures) ==
    [kind |-> "FixtureSet", fixtures |-> fixtures, current_index |-> 0]

Run(fixtures) == [kind |-> "Run", fixtures |-> fixtures, current_index |-> 0]

Banks_new(fixture_count) ==
    [banks |-> <<[sequences |-> <<Run([i \in 1..fixture_count |-> i - 1])>>,
                  current_sequence |-> Some(0)]>>,
     current_bank |-> None]

\* FixtureRun::next: the id handed to the handler, whether the run has more
\* patterns, and the run afterwards.
FixtureRun_next(run) ==
    [ids |-> <<run.fixtures[run.current_index + 1]>>,
     has_more |-> run.current_index # Len(run.fixtures) - 1,
     sequence |-> [run EXCEPT !.current_index =
                      IF run.current_index = Len(run.fixtures) - 1
                      THEN 0 ELSE run.current_index + 1]]

PatternSequence_next(sequence) ==
    IF sequence.kind = "FixtureSet"
    THEN [ids |-> sequence.fixtures, has_more |-> FALSE, sequence |-> sequence]
    ELSE FixtureRun_next(sequence)

\* Bank::next: the ids handed to the handler, in order, and the bank after.
Bank_next(bank) ==
    IF bank.current_sequence = None THEN [ids |-> <<>>, bank |-> bank]
    ELSE LET sequence_id == bank.current_sequence[1]
             r == PatternSequence_next(bank.sequences[sequence_id + 1])
         IN [ids |-> r.ids,
             bank |-> [bank EXCEPT
                 !.sequences[sequence_id + 1] = r.sequence,
                 !.current_sequence =
                     IF ~r.has_more
                     THEN Some((sequence_id + 1) % Len(bank.sequences))
                     ELSE Some(sequence_id)]]

Banks_next(banks) ==
    IF banks.current_bank = None THEN [ids |-> <<>>, banks |-> banks]
    ELSE LET bank_id == banks.current_bank[1]
             r == Bank_next(banks.banks[bank_id + 1])
         IN [ids |-> r.ids,
             banks |-> [banks EXCEPT !.banks[bank_id + 1] = r.bank]]

\* ------------------------------------------- Rc<RefCell<ColorEvent>> (organ.rs)
\* The heap maps the handle of every event that is still allocated to the
\* event and its strong count.  A fixture buffer of the organ holds handles.
Range(f) == {f[x] : x \in DOMAIN f}

\* The handle of a new allocation: one that no strong or weak reference has.
fresh_handle(heap, event_store) ==
    CHOOSE h \in 1..(Cardinality(DOMAIN heap) + Len(event_store) + 1) :
        /\ h \notin DOMAIN heap \cup Range(event_store)
        /\ \A k \in 1..(h - 1) : k \in DOMAIN heap \cup Range(event_store)

Rc_new(heap, h, event) ==
    [x \in DOMAIN heap \cup {h} |->
        IF x = h THEN [event |-> event, strong |-> 1] ELSE heap[x]]

Rc_clone(heap, h) == [heap EXCEPT ![h].strong = @ + 1]

Rc_keep(heap, h) == heap

\* Drop of one strong reference: the last one frees the event.
Rc_drop(heap, h) ==
    IF heap[h].strong = 1
    THEN [x \in DOMAIN heap \ {h} |-> heap[x]]
    ELSE [heap EXCEPT ![h].strong = @ - 1]

RECURSIVE drop_all(_, _)
drop_all(heap, handles) ==
    IF handles = <<>> THEN heap
    ELSE drop_all(Rc_drop(heap, Head(handles)), Tail(handles))

\* The events a buffer of handles refers to, newest first.
Fixture_events(buf, heap) == [i \in 1..Len(buf) |-> heap[buf[i]].event]

\* ---------------------------------------- ColorEventStore<C> of the organ
\* The store of weak handles that organ.rs calls is not part of the source;
\* it is modelled from its specification.
EventStore_clean(event_store, heap) ==
    SelectSeq(event_store, LAMBDA h : h \in DOMAIN heap)

EventStore_add(event_store, heap, h) ==
    Append(EventStore_clean(event_store, heap), h)

\* ColorEvent::release on the event of every handle, one call per handle.
RECURSIVE release_each(_, _, _)
release_each(heap, handles, release_id) ==
    IF handles = <<>> THEN heap
    ELSE release_each(
            [heap EXCEPT ![Head(handles)].event = ColorEvent_release(@, release_id)],
            Tail(handles), release_id)

\* ColorEvent::update_state on the event of every handle, one call per handle.
RECURSIVE advance_each(_, _, _)
advance_each(heap, handles, delta_t) ==
    IF handles = <<>> THEN heap
    ELSE advance_each(
            [heap EXCEPT ![Head(handles)].event = ColorEvent_update_state(@, delta_t)],
            Tail(handles), delta_t)

EventStore_release(event_store, heap, release_id) ==
    release_each(heap, EventStore_clean(event_store, heap), release_id)

EventStore_update_state(event_store, heap, delta_t) ==
    advance_each(heap, EventStore_clean(event_store, heap), delta_t)

\* ----------------------------------------------------------------- organ.rs
ColorOrgan_new(fixture_count, banks) ==
    [envelope_gen |-> EnvelopeGeneratorState_default,
     event_store |-> <<>>,
     banks |-> banks,
     fixture_state |-> [i \in 1..fixture_count |-> <<>>],
     heap |-> <<>>]

\* The handler closure of note_on, called with each id of the pattern in
\* order: an id with no fixture is skipped, any other fixture gets a clone.
RECURSIVE deliver_abort(_, _, _)
deliver_abort(o, ids, h) ==
    IF ids = <<>> THEN o
    ELSE IF Head(ids) < Len(o.fixture_state)
         THEN deliver_abort([o EXCEPT
                          !.fixture_state[Head(ids) + 1] = Fixture_add_event(@, h),
                          !.heap = Rc_clone(@, h)],
                      Tail(ids), h)
         ELSE o

RECURSIVE deliver(_, _, _)
deliver(o, ids, h) ==
    IF ids = <<>> THEN o
    ELSE IF Head(ids) < Len(o.fixture_state)
         THEN deliver([o EXCEPT
                          !.fixture_state[Head(ids) + 1] = Fixture_add_event(@, h),
                          !.heap = Rc_clone(@, h)],
                      Tail(ids), h)
         ELSE deliver(o, Tail(ids), h)

\* note_on; the velocity is handed to Banks::next, which does not use it.  The
\* Rc made by note_on is dropped when note_on returns.
ColorOrgan_note_on(o, color, release_id) ==
    LET event == ColorEvent_new(color, Envelope_new(generate(o.envelope_gen)),
                                release_id)
        h == fresh_handle(o.heap, o.event_store)
        heap1 == Rc_new(o.heap, h, event)
        nx == Banks_next(o.banks)
        delivered == deliver([o EXCEPT
                                 !.event_store = EventStore_add(@, heap1, h),
                                 !.heap = heap1,
                                 !.banks = nx.banks],
                             nx.ids, h)
    IN [delivered EXCEPT !.heap = Rc_drop(@, h)]

ColorOrgan_note_off(o, release_id) ==
    [o EXCEPT !.event_store = EventStore_clean(@, o.heap),
              !.heap = EventStore_release(o.event_store, @, release_id)]

\* Fixture::update on every fixture from index i on; the handles a fixture
\* truncates away are dropped.
RECURSIVE update_fixtures(_, _)
update_fixtures(o, i) ==
    IF i > Len(o.fixture_state) THEN o
    ELSE LET buf == o.fixture_state[i]
             kept == Len(Fixture_update(Fixture_events(buf, o.heap)))
         IN update_fixtures(
                [o EXCEPT !.fixture_state[i] = SubSeq(buf, 1, kept),
                          !.heap = drop_all(@, SubSeq(buf, kept + 1, Len(buf)))],
                i + 1)

\* All the handles of all the buffers, one per reference.
RECURSIVE all_references(_, _)
all_references(fixture_state, i) ==
    IF i > Len(fixture_state) THEN <<>>
    ELSE fixture_state[i] \o all_references(fixture_state, i + 1)

ColorOrgan_update_state_per_reference(o, delta_t) ==
    update_fixtures(
        [o EXCEPT !.event_store = EventStore_clean(@, o.heap),
                  !.heap = advance_each(@, all_references(o.fixture_state, 1),
                                        delta_t)],
        1)

\* update_state with the two steps in the other order: the fixtures are
\* pruned first, the events advanced after.
ColorOrgan_update_state_prune_first(o, delta_t) ==
    LET pruned == update_fixtures(o, 1)
    IN [pruned EXCEPT !.event_store = EventStore_clean(@, pruned.heap),
                      !.heap = EventStore_update_state(pruned.event_store, @,
                                                       delta_t)]

ColorOrgan_update_state(o, delta_t) ==
    update_fixtures(
        [o EXCEPT !.event_store = EventStore_clean(@, o.heap),
                  !.heap = EventStore_update_state(o.event_store, @, delta_t)],
        1)

\* render: Some(color) of the fixture, None for an id out of range.
ColorOrgan_render_black(o, id) ==
    IF id < Len(o.fixture_state)
    THEN Fixture_render(Fixture_events(o.fixture_state[id + 1], o.heap))
    ELSE HsluvColor_default

ColorOrgan_render(o, id) ==
    IF id < Len(o.fixture_state)
    THEN Fixture_render(Fixture_events(o.fixture_state[id + 1], o.heap))
    ELSE None

\* The heap after render(id): Fixture::render memoizes the coordinates of the
\* cached value of every event it interpolates towards, which are the events
\* in front of the oldest whose attack is not complete.
ColorOrgan_render_memo(o, id) ==
    IF id < Len(o.fixture_state)
    THEN LET buf == o.fixture_state[id + 1]
         IN [h \in DOMAIN o.heap |->
                IF \E i \in 1..(Len(buf) - 1) :
                      /\ buf[i] = h
                      /\ ~attack_complete(o.heap[h].event.envelope)
                THEN [o.heap[h] EXCEPT !.event.value = memoized(@)]
                ELSE o.heap[h]]
    ELSE o.heap

\* control(Envelope(Set(sc))).
ColorOrgan_control_envelope(o, sc) ==
    [o EXCEPT !.envelope_gen = update_from_state_change(@, sc)]

ColorOrgan_blackout_keep_last(o) ==
    [o EXCEPT
        !.fixture_state =
            [i \in 1..Len(o.fixture_state) |->
                IF i = Len(o.fixture_state) THEN o.fixture_state[i] ELSE <<>>],
        !.heap = drop_all(@, all_references(
                     SubSeq(o.fixture_state, 1, Len(o.fixture_state) - 1), 1))]

\* control(Blackout): Fixture::clear on every fixture.
ColorOrgan_blackout(o) ==
    [o EXCEPT
        !.fixture_state = [i \in 1..Len(o.fixture_state) |-> Fixture_clear(@[i])],
        !.heap = drop_all(@, all_references(o.fixture_state, 1))]

\* ------------------------------------------------------------------ state
VARIABLES
    envelope,      \* one Envelope under test (envelope.rs)
    hist,          \* what the caller of that envelope has done so far
    last_op,       \* the operation that produced the current state
    last_arg,      \* the argument of that operation
    slots,         \* ColorEventStore.0: Vec<Option<ActiveColorEvent>>
    event_buffer,  \* Fixture.event_buffer, newest event first
    organ,         \* a ColorOrgan and the events its Rcs keep allocated
    color_accum    \* a color that other colors are blended into

vars ==
    <<envelope, hist, last_op, last_arg, slots, event_buffer, organ, color_accum>>

\* The parameters of test::params() in the model's time unit of half a second.
TestParams ==
    [attack |-> 2, attack_level |-> <<2, 5>>, decay |-> 2,
     sustain_level |-> <<3, 5>>, release |-> 2]

\* No organ: the specifications of one envelope, one store or one fixture.
NoOrgan == ColorOrgan_new(0, Banks_new(0))

NoHist ==
    [elapsed |-> 0, release_elapsed |-> 0, seen_released |-> FALSE,
     release_time |-> -1, prev_op |-> "none", prev_value |-> None]

\* --------------------------------------------- one envelope and its caller
\* hist.elapsed is the total of the delta_t handed to update_state,
\* hist.release_elapsed the total handed since the first release(),
\* hist.seen_released the released flag at the latest update_state,
\* hist.release_time the value of hist.elapsed at the first release() (-1
\* before it), hist.prev_op and hist.prev_value the operation before the
\* latest one and the envelope's value before the latest one.
EnvInit ==
    /\ \E p \in EnvelopeParameters : envelope = Envelope_new(p)
    /\ hist = NoHist
    /\ last_op = "new"
    /\ last_arg = 0
    /\ slots = <<>>
    /\ event_buffer = <<>>
    /\ organ = NoOrgan
    /\ color_accum = HsluvColor_default

EnvUpdateState ==
    \E delta_t \in 0..MaxDelta :
        /\ hist.elapsed + delta_t <= MaxTime
        /\ envelope' = Envelope_update_state(envelope, delta_t)
        /\ hist' = [hist EXCEPT
                        !.elapsed = @ + delta_t,
                        !.release_elapsed = IF envelope.released THEN @ + delta_t ELSE @,
                        !.seen_released = envelope.released,
                        !.prev_op = last_op,
                        !.prev_value = envelope.value]
        /\ last_op' = "update_state"
        /\ last_arg' = delta_t
        /\ UNCHANGED <<slots, event_buffer, organ, color_accum>>

EnvRelease ==
    /\ envelope' = Envelope_release(envelope)
    /\ hist' = [hist EXCEPT
                    !.release_time = IF envelope.released THEN @ ELSE hist.elapsed,
                    !.prev_op = last_op,
                    !.prev_value = envelope.value]
    /\ last_op' = "release"
    /\ last_arg' = 0
    /\ UNCHANGED <<slots, event_buffer, organ, color_accum>>

EnvNext == EnvUpdateState \/ EnvRelease

EnvSpec == EnvInit /\ [][EnvNext]_vars

\* ------------------------------------------------------- envelope claims
A_ == envelope.parameters.attack
D_ == envelope.parameters.decay
R_ == envelope.parameters.release
AL_ == envelope.parameters.attack_level
SL_ == envelope.parameters.sustain_level

\* The reference envelope shape as a function of the total elapsed time t,
\* whether the envelope is released, and the time rt since the release.
Reference(t, rel, rt) ==
    IF t <= A_
        THEN IF A_ = 0 THEN ONE
             ELSE RAdd(AL_, RMul(Rat(t, A_), RSub(ONE, AL_)))
    ELSE IF t <= A_ + D_
        THEN RAdd(SL_, RMul(RSub(ONE, Rat(t - A_, D_)), RSub(ONE, SL_)))
    ELSE IF ~rel THEN SL_
    ELSE IF rt < R_ THEN RMul(SL_, RSub(ONE, Rat(rt, R_)))
    ELSE None

NotReleasedEarly == hist.release_time = -1 \/ hist.release_time > A_ + D_

\* C1 as stated: with sustain_level > 0 and no release() before elapsed >
\* A + D, the value always equals the reference function of the total
\* elapsed time, the released flag and the time since the release.
C1_Original ==
    (SL_ # ZERO /\ NotReleasedEarly)
        => envelope.value = Reference(hist.elapsed, envelope.released, hist.release_elapsed)

\* The values of the worked scenario (A = D = R = 1 s, attack level 0.4,
\* sustain 0.6) at 0, 0.5, 1, 1.5 and 2 s, and 0.5 s and 1 s after a release
\* made at sustain; one time unit is half a second.
TestShape ==
    (envelope.parameters = TestParams
        /\ (hist.release_time = -1 \/ hist.release_time >= 4))
    => /\ hist.elapsed = 0 => envelope.value = <<2, 5>>
       /\ hist.elapsed = 1 => envelope.value = <<7, 10>>
       /\ hist.elapsed = 2 => envelope.value = ONE
       /\ hist.elapsed = 3 => envelope.value = <<4, 5>>
       /\ hist.elapsed = 4 => envelope.value = <<3, 5>>
       /\ (hist.elapsed > 4 /\ ~hist.seen_released) => envelope.value = <<3, 5>>
       /\ (hist.seen_released /\ hist.release_elapsed = 1) => envelope.value = <<3, 10>>
       /\ (hist.seen_released /\ hist.release_elapsed >= 2) => envelope.value = None

\* C1 (amended): with sustain_level > 0 and no release() before elapsed >
\* A + D, the value equals the reference function of the total elapsed time
\* evaluated with the released flag as of the latest update_state call: a
\* release() shows in the value only at the next update_state.  The worked
\* scenario yields 0.4, 0.7, 1.0, 0.8, 0.6, then 0.3 and None.
C1_ReferenceShape ==
    /\ (SL_ # ZERO /\ NotReleasedEarly)
         => envelope.value = Reference(hist.elapsed, hist.seen_released, hist.release_elapsed)
    /\ TestShape

\* C1 witness: the worked scenario half a second after a release at sustain.
C1_Witness ==
    /\ envelope.parameters = TestParams
    /\ hist.release_time > 4
    /\ last_op = "update_state"
    /\ hist.release_elapsed = 1
    /\ envelope.value = <<3, 10>>

\* C2: once value() is None it stays None under update_state and release,
\* and an update_state on a closed envelope changes nothing at all.
C2_ClosingIsTerminal ==
    [][envelope.value = None =>
          /\ envelope'.value = None
          /\ last_op' = "update_state" => envelope' = envelope]_vars

\* C2 witness: a closed envelope was updated with a positive delta_t.
C2_Witness ==
    /\ last_op = "update_state"
    /\ last_arg > 0
    /\ hist.prev_value = None
    /\ envelope.value = None
    /\ hist.elapsed > envelope.elapsed

\* C3: right after Envelope::new the value is Some(attack_level) when
\* attack > 0 and Some(1.0) when attack == 0, never None.
C3_InitialValue ==
    last_op = "new" =>
        /\ envelope.value # None
        /\ envelope.value = IF A_ > 0 THEN AL_ ELSE ONE

\* C3 witness: a fresh zero-attack envelope whose attack level is not 1.
C3_Witness ==
    /\ last_op = "new"
    /\ A_ = 0
    /\ AL_ = <<2, 5>>
    /\ envelope.value = ONE

ReleaseThenZeroUpdate(e) == Envelope_update_state(Envelope_release(e), 0)

\* C4 as stated: with R == 0 and value not None, release() followed by
\* update_state(0) closes the envelope whatever the elapsed time.
C4_Original ==
    (R_ = 0 /\ envelope.value # None)
        => ReleaseThenZeroUpdate(envelope).value = None

\* C4 (amended): with R == 0, value not None and elapsed > A + D (attack and
\* decay exhausted), release() followed by update_state(0) closes the
\* envelope; released earlier, the envelope stays on its attack/decay curve.
C4_ZeroReleaseCloses ==
    /\ (R_ = 0 /\ envelope.value # None /\ envelope.elapsed > A_ + D_)
          => ReleaseThenZeroUpdate(envelope).value = None
    /\ (R_ = 0 /\ envelope.elapsed > A_ + D_ /\ hist.prev_op = "release"
          /\ last_op = "update_state" /\ last_arg = 0)
          => envelope.value = None
    /\ (R_ = 0 /\ envelope.value # None /\ envelope.elapsed <= A_ + D_)
          => ReleaseThenZeroUpdate(envelope).value = envelope.value

\* C4 witness: an open envelope in sustain with R == 0 was released and
\* then updated by a zero duration, and is closed.
C4_Witness ==
    /\ R_ = 0
    /\ envelope.elapsed > A_ + D_
    /\ hist.prev_op = "release"
    /\ last_op = "update_state"
    /\ last_arg = 0
    /\ hist.prev_value = SL_
    /\ SL_ # ZERO
    /\ envelope.value = None

\* C5: update_state(0) twice gives the same value as once, and except
\* right after a release() with release == 0 it leaves the value unchanged.
C5_ZeroUpdateIdempotent ==
    LET once == Envelope_update_state(envelope, 0)
        twice == Envelope_update_state(once, 0)
    IN /\ twice.value = once.value
       /\ ~(last_op = "release" /\ R_ = 0) => once.value = envelope.value
       /\ (last_op = "update_state" /\ last_arg = 0
             /\ ~(hist.prev_op = "release" /\ R_ = 0))
            => envelope.value = hist.prev_value

\* C5 witness: a zero-duration update right after a release with R > 0,
\* in sustain, left the value where it was.
C5_Witness ==
    /\ last_op = "update_state"
    /\ last_arg = 0
    /\ hist.prev_op = "release"
    /\ R_ > 0
    /\ envelope.elapsed > A_ + D_
    /\ envelope.value # None
    /\ envelope.value = hist.prev_value

\* C6 as stated: with sustain_level == 0 and no release, the value is
\* Some(0) at elapsed == A + D and None once elapsed > A + D.
C6_Original ==
    (SL_ = ZERO /\ ~envelope.released) =>
        /\ hist.elapsed = A_ + D_ => envelope.value = ZERO
        /\ hist.elapsed > A_ + D_ => envelope.value = None

\* C6 (amended): with sustain_level == 0 and no release, the value at
\* elapsed == A + D is Some(0) when D > 0 (and Some(1.0) when D == 0, where
\* the attack branch still applies), and None once elapsed > A + D.
C6_ZeroSustainCloses ==
    (SL_ = ZERO /\ ~envelope.released) =>
        /\ (hist.elapsed = A_ + D_ /\ D_ > 0) => envelope.value = ZERO
        /\ (hist.elapsed = A_ + D_ /\ D_ = 0) => envelope.value = ONE
        /\ hist.elapsed > A_ + D_ => envelope.value = None

\* C6 witness: the update after the trailing edge of the decay closed an
\* unreleased zero-sustain envelope.
C6_Witness ==
    /\ SL_ = ZERO
    /\ D_ > 0
    /\ ~envelope.released
    /\ last_op = "update_state"
    /\ hist.elapsed - last_arg = A_ + D_
    /\ hist.prev_value = ZERO
    /\ last_arg > 0
    /\ envelope.value = None

\* C7: with D == 0 the decay branch is never taken (no division by D): the
\* value is 1.0 at elapsed == A, and sustain_level at every elapsed > A
\* while unreleased with sustain_level > 0.
C7_ZeroDecaySkipped ==
    D_ = 0 =>
        /\ Phase(envelope) # "decay"
        /\ envelope.value # NaNVal
        /\ envelope.elapsed = A_ => envelope.value = ONE
        /\ (hist.elapsed > A_ /\ ~envelope.released /\ SL_ # ZERO)
              => envelope.value = SL_

\* C7 witness: a zero-decay envelope fell from the peak to its sustain level.
C7_Witness ==
    /\ D_ = 0
    /\ A_ > 0
    /\ SL_ = <<3, 5>>
    /\ ~envelope.released
    /\ last_op = "update_state"
    /\ hist.prev_value = ONE
    /\ envelope.elapsed > A_
    /\ envelope.value = SL_

\* C8: release() sets the released flag and nothing else (value, elapsed
\* and release_elapsed are as before, a second release() changes nothing),
\* and no operation resets released.
C8_ReleaseFrame ==
    [][/\ last_op' = "release" => envelope' = [envelope EXCEPT !.released = TRUE]
       /\ envelope.released => envelope'.released]_vars

\* C8 witness: release() was called twice in a row on an open envelope in
\* sustain with R == 0, and the value is still the sustain level.
C8_Witness ==
    /\ last_op = "release"
    /\ hist.prev_op = "release"
    /\ R_ = 0
    /\ envelope.elapsed > A_ + D_
    /\ envelope.released
    /\ envelope.value = SL_
    /\ envelope.release_elapsed = 0

\* ------------------------------------------------- the store and its callers
\* The events handed to the store: fresh events of the test parameters.
StoreEvents ==
    {ColorEvent_new(HsluvColor_new(<<1, 0>>, ONE, ONE), Envelope_new(TestParams), r) :
        r \in ReleaseIds}

\* The store's callers keep, for every id add has returned, the event given
\* to add and the number of unlisten calls the id is still owed (the listener
\* count given to add, less the unlisten calls on the id since), until none is
\* owed; they count the events in that state (live), and note a panic of the
\* store, which ends the process.  hist.peak is the largest number of events
\* that were active in the store at once.
StoreInit ==
    /\ slots = <<>>
    /\ hist = [panicked |-> FALSE, live |-> 0, peak |-> 0,
               issued |-> [i \in 1..MaxSlots |-> None]]
    /\ last_op = "new"
    /\ last_arg = 0
    /\ envelope = Envelope_new(TestParams)
    /\ event_buffer = <<>>
    /\ organ = NoOrgan
    /\ color_accum = HsluvColor_default

\* add(event, listener_count); assert_ne!(0, listener_count) panics.
StoreAdd ==
    \E event \in StoreEvents, listener_count \in 0..MaxListeners :
        /\ ~hist.panicked
        /\ first_free(slots) # 0 \/ Len(slots) < MaxSlots
        /\ last_op' = "add"
        /\ IF listener_count = 0
           THEN /\ hist' = [hist EXCEPT !.panicked = TRUE]
                /\ last_arg' = 0
                /\ UNCHANGED slots
           ELSE /\ slots' = ColorEventStore_add(slots, event, listener_count)
                /\ last_arg' = ColorEventStore_add_id(slots)
                /\ hist' = [hist EXCEPT
                       !.live = @ + 1,
                       !.peak =
                           IF ColorEventStore_active_event_count(slots') > @
                           THEN ColorEventStore_active_event_count(slots')
                           ELSE @,
                       !.issued[ColorEventStore_add_id(slots) + 1] =
                           [event |-> event, owed |-> listener_count]]
        /\ UNCHANGED <<envelope, event_buffer, organ, color_accum>>

\* unlisten(ColorEventID(id)); self.0[id] panics when the vector has no slot
\* of that index.
StoreUnlisten ==
    \E id \in 0..MaxSlots :
        /\ ~hist.panicked
        /\ last_op' = "unlisten"
        /\ last_arg' = id
        /\ IF id >= Len(slots)
           THEN /\ hist' = [hist EXCEPT !.panicked = TRUE]
                /\ UNCHANGED slots
           ELSE /\ slots' = ColorEventStore_unlisten(slots, id + 1)
                /\ hist' =
                     IF hist.issued[id + 1] = None THEN hist
                     ELSE IF hist.issued[id + 1].owed = 1
                          THEN [hist EXCEPT !.live = @ - 1,
                                            !.issued[id + 1] = None]
                          ELSE [hist EXCEPT !.issued[id + 1].owed = @ - 1]
        /\ UNCHANGED <<envelope, event_buffer, organ, color_accum>>

\* get(ColorEventID(id)), a query; self.0[id] panics when the vector has no
\* slot of that index.
StoreGet ==
    \E id \in 0..MaxSlots :
        /\ ~hist.panicked
        /\ last_op' = "get"
        /\ last_arg' = id
        /\ hist' = IF id >= Len(slots)
                   THEN [hist EXCEPT !.panicked = TRUE]
                   ELSE hist
        /\ UNCHANGED <<slots, envelope, event_buffer, organ, color_accum>>

StoreRelease ==
    \E release_id \in ReleaseIds :
        /\ ~hist.panicked
        /\ slots' = ColorEventStore_release(slots, release_id)
        /\ UNCHANGED hist
        /\ last_op' = "store_release"
        /\ last_arg' = release_id
        /\ UNCHANGED <<envelope, event_buffer, organ, color_accum>>

StoreNext == StoreAdd \/ StoreUnlisten \/ StoreGet \/ StoreRelease

StoreSpec == StoreInit /\ [][StoreNext]_vars

\* C9: after release(r) every active event whose release_id is r is released
\* (by ColorEvent::release's rule) and every other event, every listener
\* count and every empty slot is as before; one call releases all the
\* events that share the id.
C9_ReleaseTargetsById ==
    [][last_op' = "store_release" =>
          /\ Len(slots') = Len(slots)
          /\ \A i \in 1..Len(slots) :
                IF slots[i] = None THEN slots'[i] = None
                ELSE /\ slots'[i] # None
                     /\ slots'[i].listener_count = slots[i].listener_count
                     /\ slots'[i].event = ColorEvent_release(slots[i].event, last_arg')
                     /\ slots[i].event.release_id = last_arg'
                          => /\ slots'[i].event.envelope.released
                             /\ slots'[i].event.envelope
                                  = [slots[i].event.envelope EXCEPT !.released = TRUE]
                     /\ slots[i].event.release_id # last_arg'
                          => slots'[i] = slots[i]]_vars

\* C9 witness: a release call, release(7), released the two events
\* of release id 7 and left the event of release id 9 unreleased.
C9_Witness ==
    /\ last_op = "store_release"
    /\ last_arg = 7
    /\ Len(slots) = 3
    /\ \A i \in 1..3 : slots[i] # None
    /\ Cardinality({i \in 1..3 : slots[i].event.release_id = 7
                                    /\ slots[i].event.envelope.released}) = 2
    /\ \E i \in 1..3 : /\ slots[i].event.release_id = 9
                       /\ ~slots[i].event.envelope.released

\* ----------------------------------------------- one fixture and its events
\* The envelope parameters of the events a fixture receives.
FixtureParams ==
    {[TestParams EXCEPT !.attack = a, !.decay = 0, !.sustain_level = sl] :
        a \in {0, MaxDur}, sl \in {ZERO, <<3, 5>>}}

\* The envelope value of an event as Fixture::render weighs it: zero when the
\* event is closed.
intensity(e) == IF e.envelope.value = None THEN ZERO ELSE e.envelope.value

FixInit ==
    /\ event_buffer = <<>>
    /\ hist = [prev_len |-> 0]
    /\ last_op = "new"
    /\ last_arg = 0
    /\ envelope = Envelope_new(TestParams)
    /\ slots = <<>>
    /\ organ = NoOrgan
    /\ color_accum = HsluvColor_default

FixAddEvent ==
    \E p \in FixtureParams, color \in Colors, release_id \in {7} :
        /\ Len(event_buffer) < MaxBuf
        /\ event_buffer' =
              Fixture_add_event(event_buffer,
                                ColorEvent_new(color, Envelope_new(p), release_id))
        /\ hist' = [prev_len |-> Len(event_buffer)]
        /\ last_op' = "add_event"
        /\ last_arg' = release_id
        /\ UNCHANGED <<envelope, slots, organ, color_accum>>

\* The owner of the events advances every one of them by delta_t (no
\* further than one unit past the longest attack).
FixTick ==
    \E delta_t \in 0..MaxDelta :
        /\ event_buffer # <<>>
        /\ \A i \in 1..Len(event_buffer) :
              event_buffer[i].envelope.elapsed + delta_t <= MaxDur + 1
        /\ event_buffer' =
              [i \in 1..Len(event_buffer) |->
                  ColorEvent_update_state(event_buffer[i], delta_t)]
        /\ hist' = [prev_len |-> Len(event_buffer)]
        /\ last_op' = "event_update_state"
        /\ last_arg' = 0
        /\ UNCHANGED <<envelope, slots, organ, color_accum>>

FixUpdate ==
    /\ event_buffer' = Fixture_update(event_buffer)
    /\ hist' = [prev_len |-> Len(event_buffer)]
    /\ last_op' = "fixture_update"
    /\ last_arg' = 0
    /\ UNCHANGED <<envelope, slots, organ, color_accum>>

FixClear ==
    /\ event_buffer' = Fixture_clear(event_buffer)
    /\ hist' = [prev_len |-> Len(event_buffer)]
    /\ last_op' = "clear"
    /\ last_arg' = 0
    /\ UNCHANGED <<envelope, slots, organ, color_accum>>

FixNext == FixAddEvent \/ FixTick \/ FixUpdate \/ FixClear

FixtureSpec == FixInit /\ [][FixNext]_vars

\* No event of buf sits behind (is older than) an attack-complete event.
NoneBehindComplete(buf) ==
    \A i \in 1..Len(buf) : \A j \in (i + 1)..Len(buf) :
        ~attack_complete(buf[i].envelope)

\* C10: after Fixture::update no event of the buffer is behind an event
\* whose attack is complete; the buffer is a prefix of what it was, ending
\* at the newest attack-complete event (dropped too when it is the only
\* event left and closed), so every newer event is kept, in order.
C10_PruneDropsOccluded ==
    [][last_op' = "fixture_update" =>
          LET old == event_buffer
              new == event_buffer'
              complete == {i \in 1..Len(old) : attack_complete(old[i].envelope)}
          IN /\ NoneBehindComplete(new)
             /\ Len(new) <= Len(old)
             /\ \A i \in 1..Len(new) : new[i] = old[i]
             /\ complete = {} => new = old
             /\ \A k \in complete :
                   (\A i \in 1..(k - 1) : i \notin complete) =>
                       /\ Len(new) >= k - 1
                       /\ Len(new) <= k
                       /\ Len(new) = k - 1 =>
                             (k = 1 /\ ColorEvent_closed(old[1]))]_vars

\* C10 witness: a prune cut a three-event buffer down to an event still in
\* its attack and, behind it, the newest attack-complete event.
C10_Witness ==
    /\ last_op = "fixture_update"
    /\ hist.prev_len = 3
    /\ Len(event_buffer) = 2
    /\ ~attack_complete(event_buffer[1].envelope)
    /\ attack_complete(event_buffer[2].envelope)

\* C11: a fixture holding E1 and, in front of it, the newer E2 renders the
\* interpolation from E1's value towards E2's value weighted by E2's
\* envelope value while E2's attack is not complete; once E2's attack is
\* complete it renders exactly E2's value and a prune leaves at most E2.
C11_CrossFade ==
    Len(event_buffer) = 2 =>
        LET E2 == event_buffer[1]
            E1 == event_buffer[2]
        IN /\ ~attack_complete(E2.envelope) =>
                 Fixture_render(event_buffer) =
                     weighted_interpolation(E1.value, E2.value, intensity(E2))
           /\ attack_complete(E2.envelope) =>
                 /\ Fixture_render(event_buffer) = E2.value
                 /\ Fixture_update(event_buffer) \in {<<E2>>, <<>>}
                 /\ Fixture_update(event_buffer) = <<>> => ColorEvent_closed(E2)

\* C11 witness: E2 arrived while E1 was in its attack, both are part way
\* through their attacks, and the rendered color is neither event's value.
C11_Witness ==
    /\ Len(event_buffer) = 2
    /\ ~attack_complete(event_buffer[1].envelope)
    /\ ~attack_complete(event_buffer[2].envelope)
    /\ event_buffer[1].envelope.elapsed > 0
    /\ event_buffer[1].color # event_buffer[2].color
    /\ Fixture_render(event_buffer) # event_buffer[1].value
    /\ Fixture_render(event_buffer) # event_buffer[2].value

\* C12: Fixture::update never changes the rendered color: the render of the
\* buffer it leaves equals the render of the buffer it was given.
C12_PrunePreservesRender ==
    [][last_op' = "fixture_update" =>
          Fixture_render(event_buffer') = Fixture_render(event_buffer)]_vars

\* C12 witness: a prune cut a buffer of two or more events down to its
\* newest attack-complete event, whose color is not black.
C12_Witness ==
    /\ last_op = "fixture_update"
    /\ hist.prev_len >= 2
    /\ Len(event_buffer) = 1
    /\ attack_complete(event_buffer[1].envelope)
    /\ Fixture_render(event_buffer) # HsluvColor_default

\* C15: an event added with listener count n occupies its slot, with
\* listener count n minus the unlisten calls on its id so far (at least 1),
\* until the n-th unlisten call, at which its slot is cleared; the number of
\* active events is the number of occupied slots, and of the events added
\* and not yet unlistened n times.
C15_ListenerCountedLifetime ==
    /\ \A i \in 1..MaxSlots :
          IF hist.issued[i] = None
          THEN i <= Len(slots) => slots[i] = None
          ELSE /\ i <= Len(slots)
               /\ slots[i] # None
               /\ slots[i].listener_count = hist.issued[i].owed
               /\ slots[i].listener_count >= 1
    /\ ColorEventStore_active_event_count(slots) = hist.live
    /\ hist.live = Cardinality({i \in 1..Len(slots) : slots[i] # None})

\* C15 witness: an event added with more than one listener is still active
\* after an unlisten call on its id, which is owed one more.
C15_Witness ==
    /\ last_op = "unlisten"
    /\ last_arg < Len(slots)
    /\ hist.issued[last_arg + 1] # None
    /\ hist.issued[last_arg + 1].owed = 1
    /\ slots[last_arg + 1] # None
    /\ ColorEventStore_active_event_count(slots) = hist.live
    /\ hist.live >= 1

\* The store call of this step is aimed at a dead or unknown event: unlisten
\* or get of an id whose slot is empty or past the slot vector, or release
\* of a release id no active event carries.
AimedAtDeadOrUnknown ==
    \/ /\ last_op' \in {"unlisten", "get"}
       /\ \/ last_arg' >= Len(slots)
          \/ slots[last_arg' + 1] = None
    \/ /\ last_op' = "store_release"
       /\ \A i \in 1..Len(slots) :
             slots[i] # None => slots[i].event.release_id # last_arg'

\* C19: a store call aimed at a dead or unknown event leaves the store
\* unchanged and does not panic.
C19_AbsorbedAsNoOp ==
    [][AimedAtDeadOrUnknown => slots' = slots /\ ~hist'.panicked]_vars

\* C20: add returns an id whose slot held no event (so no active event has
\* it, and the event it was last returned for has had all its unlisten
\* calls) and changes no other slot; get of the id of an active event
\* returns the event add returned the id for, released or not.
C20_IdUniquelyIdentifies ==
    [][/\ (last_op' = "add" /\ ~hist'.panicked) =>
             LET i == last_arg' + 1
             IN /\ i > Len(slots) \/ slots[i] = None
                /\ hist.issued[i] = None
                /\ ColorEventStore_get(slots', i) = hist'.issued[i].event
                /\ \A j \in 1..Len(slots) : j # i => slots'[j] = slots[j]
       /\ \A i \in 1..Len(slots') :
             hist'.issued[i] # None =>
                ColorEventStore_get(slots', i) \in
                    {hist'.issued[i].event,
                     ColorEvent_release(hist'.issued[i].event,
                                        hist'.issued[i].event.release_id)}]_vars

\* C20 witness: add returned id 0 again, for an event of release id 9, after
\* the event it had returned id 0 for was unlistened, while the event of
\* id 1 is still active.
C20_Witness ==
    /\ last_op = "add"
    /\ ~hist.panicked
    /\ last_arg = 0
    /\ Len(slots) = 2
    /\ slots[1] # None /\ slots[2] # None
    /\ ColorEventStore_get(slots, 1).release_id = 9
    /\ ColorEventStore_get(slots, 2).release_id = 7
    /\ ColorEventStore_get(slots, 2).envelope.released

\* ------------------------------------------------------------ the organ
\* The fixture_count the organ is made with.
FixtureCount == 2

\* The banks of the organ come from its configuration (Banks is
\* Deserialize): those of Banks::new, with no current bank, and a current
\* bank that cycles through a fixture set, which names fixture 0 twice and
\* an id past the last fixture between two fixtures, and a run.
OrganBanks ==
    {Banks_new(FixtureCount),
     [banks |-> <<[sequences |->
                      <<FixtureSet(<<0, FixtureCount, FixtureCount - 1, 0>>),
                        Run([i \in 1..FixtureCount |-> i - 1])>>,
                   current_sequence |-> Some(0)]>>,
      current_bank |-> Some(0)]}

\* hist keeps the pattern the last note_on was given by the banks and the
\* number of references the last Blackout dropped.
OrganHist(pattern, cleared) == [pattern |-> pattern, cleared |-> cleared]

Init ==
    /\ \E b \in OrganBanks : organ = ColorOrgan_new(FixtureCount, b)
    /\ hist = OrganHist(<<>>, 0)
    /\ last_op = "new"
    /\ last_arg = 0
    /\ envelope = Envelope_new(TestParams)
    /\ slots = <<>>
    /\ event_buffer = <<>>
    /\ color_accum = HsluvColor_default

\* The notes of the input layer: each has its color and its release id.
Notes ==
    {[color |-> HsluvColor_new(<<1, 0>>, ONE, ONE), release_id |-> 7],
     [color |-> HsluvColor_new(<<0, 1>>, ONE, <<1, 2>>), release_id |-> 9]}

NoteOn ==
    \E note \in Notes :
        LET o == ColorOrgan_note_on(organ, note.color, note.release_id)
        IN /\ Cardinality(DOMAIN organ.heap) < MaxEvents
           /\ \A i \in 1..Len(o.fixture_state) : Len(o.fixture_state[i]) <= MaxBuf
           /\ organ' = o
           /\ hist' = OrganHist(Banks_next(organ.banks).ids, 0)
           /\ last_op' = "note_on"
           /\ last_arg' = 0
           /\ UNCHANGED <<envelope, slots, event_buffer, color_accum>>

NoteOff ==
    \E release_id \in ReleaseIds :
        /\ organ' = ColorOrgan_note_off(organ, release_id)
        /\ hist' = OrganHist(<<>>, 0)
        /\ last_op' = "note_off"
        /\ last_arg' = 0
        /\ UNCHANGED <<envelope, slots, event_buffer, color_accum>>

\* The ticks of the organ: none or the longest; an event that is neither
\* released nor closed is advanced up to MaxOrganTime.
Ticks == {0, MaxDelta}

UpdateState ==
    \E delta_t \in Ticks :
        /\ \A h \in DOMAIN organ.heap :
              \/ ColorEvent_closed(organ.heap[h].event)
              \/ organ.heap[h].event.envelope.released
              \/ organ.heap[h].event.envelope.elapsed + delta_t <= MaxOrganTime
        /\ organ' = ColorOrgan_update_state(organ, delta_t)
        /\ hist' = OrganHist(<<>>, 0)
        /\ last_op' = "update_state"
        /\ last_arg' = delta_t
        /\ UNCHANGED <<envelope, slots, event_buffer, color_accum>>

ControlEnvelope ==
    \E sc \in StateChanges :
        /\ organ' = ColorOrgan_control_envelope(organ, sc)
        /\ hist' = OrganHist(<<>>, 0)
        /\ last_op' = "control_envelope"
        /\ last_arg' = 0
        /\ UNCHANGED <<envelope, slots, event_buffer, color_accum>>

Blackout ==
    /\ organ' = ColorOrgan_blackout(organ)
    /\ hist' = OrganHist(<<>>, Len(all_references(organ.fixture_state, 1)))
    /\ last_op' = "blackout"
    /\ last_arg' = 0
    /\ UNCHANGED <<envelope, slots, event_buffer, color_accum>>

Render ==
    \E id \in 0..FixtureCount :
        /\ organ' = [organ EXCEPT !.heap = ColorOrgan_render_memo(organ, id)]
        /\ hist' = OrganHist(<<>>, 0)
        /\ last_op' = "render"
        /\ last_arg' = id
        /\ UNCHANGED <<envelope, slots, event_buffer, color_accum>>

Next == NoteOn \/ NoteOff \/ UpdateState \/ ControlEnvelope \/ Blackout \/ Render

Spec == Init /\ [][Next]_vars

\* The number of references to the event of handle h in the fixture buffers.
references(o, h) ==
    Cardinality({<<i, j>> \in (1..Len(o.fixture_state)) \X (1..MaxBuf) :
                    j <= Len(o.fixture_state[i]) /\ o.fixture_state[i][j] = h})

\* The handles of the store whose event is still allocated: its live entries.
live_entries(o) == {k \in 1..Len(o.event_store) : o.event_store[k] \in DOMAIN o.heap}

\* C13: update_state(delta_t) leaves every event that is still allocated as
\* one ColorEvent::update_state(delta_t) leaves it, however many references
\* the buffers hold to it: the elapsed time of an event that was not closed
\* is delta_t more, and a closed event is as it was.
C13_AdvancedExactlyOnce ==
    [][last_op' = "update_state" =>
          \A h \in DOMAIN organ'.heap :
              /\ h \in DOMAIN organ.heap
              /\ organ'.heap[h].event
                   = ColorEvent_update_state(organ.heap[h].event, last_arg')
              /\ ~ColorEvent_closed(organ.heap[h].event) =>
                    organ'.heap[h].event.envelope.elapsed
                      = organ.heap[h].event.envelope.elapsed + last_arg'
              /\ ColorEvent_closed(organ.heap[h].event) =>
                    organ'.heap[h].event = organ.heap[h].event]_vars

\* C13 witness: a tick of two time units advanced an event that fixture 0
\* holds twice and fixture 1 once to an elapsed time of two units.
C13_Witness ==
    /\ last_op = "update_state"
    /\ last_arg = 2
    /\ \E h \in DOMAIN organ.heap :
          /\ organ.heap[h].event.envelope.elapsed = 2
          /\ ~organ.heap[h].event.envelope.released
          /\ references(organ, h) >= 3
          /\ Len(organ.fixture_state[1]) >= 2
          /\ organ.fixture_state[1][1] = h
          /\ organ.fixture_state[1][2] = h
          /\ organ.fixture_state[2][1] = h

\* C14: the store has one live entry for every allocated event, every
\* allocated event is referenced by a buffer, exactly as many times as its
\* strong count, so the live entries are no more than the references of the
\* buffers; note_off and update_state touch allocated events only.
C14_LiveEntriesAreReferenced ==
    /\ \A h \in DOMAIN organ.heap :
          /\ organ.heap[h].strong = references(organ, h)
          /\ references(organ, h) >= 1
          /\ Cardinality({k \in live_entries(organ) : organ.event_store[k] = h}) = 1
    /\ Cardinality(live_entries(organ))
         <= Len(all_references(organ.fixture_state, 1))
    /\ \A i \in 1..Len(organ.fixture_state) :
          \A j \in 1..Len(organ.fixture_state[i]) :
              organ.fixture_state[i][j] \in DOMAIN organ.heap

\* C14 witness: a note_on whose pattern reached no fixture left its event
\* unreferenced, and the entry the store has for it is not live.
C14_Witness ==
    /\ last_op = "note_on"
    /\ hist.pattern = <<>>
    /\ Len(organ.event_store) = 1
    /\ live_entries(organ) = {}
    /\ organ.heap = <<>>

\* C16: right after Blackout every fixture buffer is empty and the render of
\* every fixture is black, and the envelope generator is as it was.
C16_BlackoutClears ==
    [][last_op' = "blackout" =>
          /\ \A i \in 1..FixtureCount : organ'.fixture_state[i] = <<>>
          /\ \A id \in 0..(FixtureCount - 1) :
                ColorOrgan_render(organ', id) = HsluvColor_default
          /\ organ'.envelope_gen = organ.envelope_gen]_vars

\* C16 witness: a Blackout dropped three or more references, after the
\* generator's attack had been changed from its default.
C16_Witness ==
    /\ last_op = "blackout"
    /\ hist.cleared >= 3
    /\ organ.envelope_gen # EnvelopeGeneratorState_default
    /\ \A i \in 1..FixtureCount : organ.fixture_state[i] = <<>>

\* The number of times id is in the pattern ids.
occurrences(ids, id) == Cardinality({k \in 1..Len(ids) : ids[k] = id})

\* C17: note_on pushes the new event onto the front of the buffer of every
\* valid fixture id of its pattern, once per occurrence, also when the
\* pattern holds an id with no fixture, and leaves the other buffers as
\* they were.
C17_InvalidIdSkipped ==
    [][last_op' = "note_on" =>
          LET ids == Banks_next(organ.banks).ids
          IN /\ Len(organ'.fixture_state) = Len(organ.fixture_state)
             /\ \A i \in 1..Len(organ.fixture_state) :
                   LET n == occurrences(ids, i - 1)
                       new == organ'.fixture_state[i]
                   IN /\ Len(new) = Len(organ.fixture_state[i]) + n
                      /\ SubSeq(new, n + 1, Len(new)) = organ.fixture_state[i]
                      /\ \A j \in 1..n :
                            /\ new[j] \notin DOMAIN organ.heap
                            /\ new[j] \in DOMAIN organ'.heap
                            /\ organ'.heap[new[j]].event.envelope.elapsed = 0]_vars

\* C17 witness: a note_on whose pattern names fixture 0, an id with no
\* fixture, fixture 1 and fixture 0 again gave fixture 0 two references to
\* the new event and fixture 1 one.
C17_Witness ==
    /\ last_op = "note_on"
    /\ hist.pattern = <<0, FixtureCount, FixtureCount - 1, 0>>
    /\ Len(organ.fixture_state[1]) >= 2
    /\ organ.fixture_state[1][1] = organ.fixture_state[1][2]
    /\ organ.fixture_state[FixtureCount][1] = organ.fixture_state[1][1]

\* The organ without the memoized coordinates of the cached values.
unmemoized(o) ==
    [o EXCEPT !.heap = [h \in DOMAIN o.heap |->
                          [o.heap[h] EXCEPT !.event.value.rect = None]]]

\* C18 as stated: render changes nothing and is black for an empty buffer
\* and for an id with no fixture.
C18_Original ==
    [][last_op' = "render" =>
          /\ organ' = organ
          /\ (\/ last_arg' >= Len(organ.fixture_state)
              \/ organ.fixture_state[last_arg' + 1] = <<>>)
                => ColorOrgan_render(organ, last_arg') = HsluvColor_default]_vars

\* C18: render is black for a fixture whose buffer is empty and None for an
\* id with no fixture; it changes no buffer, no store entry, no bank, no
\* generator parameter and nothing of an event but the memoized coordinates
\* of its cached value, and it renders the same color again.
C18_RenderIsQuery ==
    [][last_op' = "render" =>
          /\ unmemoized(organ') = unmemoized(organ)
          /\ \A h \in DOMAIN organ.heap :
                organ'.heap[h].event.value.rect
                    \in {organ.heap[h].event.value.rect,
                         rect(organ.heap[h].event.value)}
          /\ last_arg' >= Len(organ.fixture_state)
                => ColorOrgan_render(organ, last_arg') = None
          /\ last_arg' < Len(organ.fixture_state)
                => /\ ColorOrgan_render(organ', last_arg')
                        = ColorOrgan_render(organ, last_arg')
                   /\ organ.fixture_state[last_arg' + 1] = <<>>
                        => ColorOrgan_render(organ, last_arg') = HsluvColor_default]_vars

\* C18 witness: a render of fixture 0, which holds two events, memoized the
\* coordinates of the newer event's cached value.
C18_Witness ==
    /\ last_op = "render"
    /\ last_arg = 0
    /\ Len(organ.fixture_state[1]) >= 2
    /\ organ.fixture_state[1][1] # organ.fixture_state[1][Len(organ.fixture_state[1])]
    /\ organ.heap[organ.fixture_state[1][1]].event.value.rect # None
    /\ ColorOrgan_render(organ, 0) # HsluvColor_default


\* C21: the cached value of every event of the organ is its anchor color
\* under the current envelope value: black once the envelope is closed,
\* otherwise the hue and saturation of the anchor with the lightness of the
\* anchor times the envelope value.  Right after update_state the cached
\* value is that color exactly; later a render may have memoized the
\* coordinates of the cached value, nothing else.  The anchor color stays
\* the color of the note the event was made from, whatever update_state and
\* release did since.
C21_CachedValue ==
    \A h \in DOMAIN organ.heap :
        LET ev == organ.heap[h].event
            want == enveloped(ev.color, ev.envelope.value)
        IN /\ [ev.value EXCEPT !.rect = None] = want
           /\ last_op = "update_state" => ev.value = want
           /\ IF ColorEvent_closed(ev)
              THEN ev.value.lightness = ZERO
              ELSE /\ ev.value.hue = ev.color.hue
                   /\ ev.value.saturation_sq = ev.color.saturation_sq
                   /\ ev.value.lightness =
                         RMul(ev.color.lightness, ev.envelope.value)
           /\ \E note \in Notes : /\ note.color = ev.color
                                  /\ note.release_id = ev.release_id

\* An update_state has just run; one event is released and closed and its
\* cached value is black though its anchor is not, and another is open,
\* has been advanced and shows the hue of its anchor at half lightness.
C21_Witness ==
    /\ last_op = "update_state"
    /\ \E h \in DOMAIN organ.heap :
          LET ev == organ.heap[h].event
          IN /\ ev.envelope.released
             /\ ColorEvent_closed(ev)
             /\ ev.color.lightness # ZERO
             /\ ev.value = HsluvColor_default
    /\ \E h \in DOMAIN organ.heap :
          LET ev == organ.heap[h].event
          IN /\ ~ColorEvent_closed(ev)
             /\ ev.envelope.elapsed > 0
             /\ ev.value.hue = <<0, 1>>
             /\ ev.value.lightness = <<1, 2>>

\* ------------------------------------------------- a color and its blends
\* The colors made with HsluvColor::new: gray or fully saturated, of an axis
\* hue, dark, half or fully light.
BlendColors ==
    {HsluvColor_new(hue, saturation, lightness) :
        hue \in AxisHues, saturation \in {ZERO, ONE},
        lightness \in {ZERO, <<1, 2>>, ONE}}

\* The interpolation parameters and envelope values handed to a color.
Alphas == {ZERO, <<1, 2>>, ONE}

\* hist.self is the accumulator as the latest call left it (the call of
\* rect() on it memoizes its coordinates) and hist.steps the number of calls
\* made on the accumulator; last_arg is the argument of the latest call.
ColorInit ==
    /\ color_accum \in BlendColors
    /\ hist = [self |-> color_accum, steps |-> 0]
    /\ last_op = "new"
    /\ last_arg = [target |-> color_accum, alpha |-> ZERO]
    /\ envelope = Envelope_new(TestParams)
    /\ slots = <<>>
    /\ event_buffer = <<>>
    /\ organ = NoOrgan

\* color_accum = color_accum.weighted_interpolation(&target, alpha), the
\* step of the fold of Fixture::render; the target is a new color or a clone
\* of the accumulator.
ColorInterpolate ==
    \E target \in BlendColors \union {color_accum}, alpha \in Alphas :
        /\ hist.steps < MaxBlend
        /\ color_accum' = weighted_interpolation(color_accum, target, alpha)
        /\ hist' = [self |-> memoized(color_accum), steps |-> hist.steps + 1]
        /\ last_op' = "weighted_interpolation"
        /\ last_arg' = [target |-> target, alpha |-> alpha]
        /\ UNCHANGED <<envelope, slots, event_buffer, organ>>

\* color_accum = color_accum.with_envelope(envelope).
ColorWithEnvelope ==
    \E envelope_ \in Alphas :
        /\ hist.steps < MaxBlend
        /\ color_accum' = with_envelope(color_accum, envelope_)
        /\ hist' = [self |-> color_accum, steps |-> hist.steps + 1]
        /\ last_op' = "with_envelope"
        /\ last_arg' = [target |-> color_accum, alpha |-> envelope_]
        /\ UNCHANGED <<envelope, slots, event_buffer, organ>>

ColorNext == ColorInterpolate \/ ColorWithEnvelope

ColorSpec == ColorInit /\ [][ColorNext]_vars

C23_SelfInterpolation ==
    (last_op = "weighted_interpolation"
        /\ memoized(last_arg.target) = hist.self) =>
        /\ color_accum.hue # NaNHue
        /\ color_accum.hue = hist.self.hue
        /\ color_accum.saturation_sq = hist.self.saturation_sq
        /\ color_accum = hist.self

\* C24: a weighted interpolation at alpha = 0 has the hue, saturation and
\* lightness of self, and at alpha = 1 those of the target.
C24_Endpoints ==
    last_op = "weighted_interpolation" =>
        /\ last_arg.alpha = ZERO =>
              /\ color_accum.hue = hist.self.hue
              /\ color_accum.saturation_sq = hist.self.saturation_sq
              /\ color_accum.lightness = hist.self.lightness
        /\ last_arg.alpha = ONE =>
              /\ color_accum.hue = last_arg.target.hue
              /\ color_accum.saturation_sq = last_arg.target.saturation_sq
              /\ color_accum.lightness = last_arg.target.lightness

\* C25: between the operations of the organ no fixture buffer holds an
\* event behind (older than) an event whose attack is complete, and right
\* after update_state no buffer is a single closed event: the tick advances
\* every event before it prunes any fixture, so an event whose attack
\* completes in a tick evicts the older events of its fixtures in that tick.
C25_BufferInvariant ==
    \A i \in 1..Len(organ.fixture_state) :
        LET buf == Fixture_events(organ.fixture_state[i], organ.heap)
        IN /\ NoneBehindComplete(buf)
           /\ last_op = "update_state" =>
                 ~(Len(buf) = 1 /\ ColorEvent_closed(buf[1]))

\* A tick has just run and left a fixture with one open event whose attack
\* is complete, while the store still lists an older event that no buffer
\* keeps allocated any more.
C25_Witness ==
    /\ last_op = "update_state"
    /\ last_arg = MaxDelta
    /\ \E i \in 1..Len(organ.fixture_state) :
          LET buf == Fixture_events(organ.fixture_state[i], organ.heap)
          IN /\ Len(buf) = 1
             /\ attack_complete(buf[1].envelope)
             /\ ~ColorEvent_closed(buf[1])
             /\ ~buf[1].envelope.released
             /\ \E k \in 1..Len(organ.event_store) :
                   /\ organ.event_store[k] \notin DOMAIN organ.heap
                   /\ \E m \in (k + 1)..Len(organ.event_store) :
                         organ.event_store[m] = organ.fixture_state[i][1]

\* C26: note_on makes one event, of a handle nothing referred to before,
\* and registers it once with the store; every fixture named by the pattern
\* of the current bank gets that handle at the front of its buffer (once
\* per time it is named), before the handles it held, which keep their
\* order; the other buffers are unchanged, and so is every buffer when no
\* bank is current.  The events allocated before are untouched; the new
\* event stays allocated exactly when a fixture took it.
C26_NoteOnFrame ==
    [][last_op' = "note_on" =>
          LET ids == Banks_next(organ.banks).ids
              h == organ'.event_store[Len(organ'.event_store)]
              copies(n) == [j \in 1..n |-> h]
              taken == \E k \in 1..Len(ids) : ids[k] < Len(organ.fixture_state)
          IN /\ organ'.event_store # <<>>
             /\ h \notin DOMAIN organ.heap \cup Range(organ.event_store)
             /\ occurrences(organ'.event_store, h) = 1
             /\ DOMAIN organ'.heap =
                   DOMAIN organ.heap \cup (IF taken THEN {h} ELSE {})
             /\ \A x \in DOMAIN organ.heap : organ'.heap[x] = organ.heap[x]
             /\ taken =>
                   /\ organ'.heap[h].strong = references(organ', h)
                   /\ \E note \in Notes :
                         organ'.heap[h].event =
                            ColorEvent_new(
                               note.color,
                               Envelope_new(generate(organ.envelope_gen)),
                               note.release_id)
             /\ Len(organ'.fixture_state) = Len(organ.fixture_state)
             /\ \A i \in 1..Len(organ.fixture_state) :
                   organ'.fixture_state[i] =
                      copies(occurrences(ids, i - 1)) \o organ.fixture_state[i]
             /\ organ.banks.current_bank = None =>
                   organ'.fixture_state = organ.fixture_state
             /\ organ'.envelope_gen = organ.envelope_gen]_vars

\* A note_on has put its event in front of an older event in the buffer of
\* one fixture and left the buffer of another fixture, which holds only the
\* older event, as it was.
C26_Witness ==
    /\ last_op = "note_on"
    /\ \E i, j \in 1..Len(organ.fixture_state) :
          LET h == organ.event_store[Len(organ.event_store)]
          IN /\ organ.fixture_state[i] # <<>>
             /\ organ.fixture_state[i][1] = h
             /\ organ.fixture_state[j] # <<>>
             /\ organ.fixture_state[j][1] # h
             /\ organ.fixture_state[i][Len(organ.fixture_state[i])] =
                   organ.fixture_state[j][1]

\* The envelope was released no later than the end of its decay.
ReleasedEarly == hist.release_time # -1 /\ hist.release_time <= A_ + D_

\* C27: after a release() made while elapsed <= A + D, the value at every
\* elapsed <= A + D is that of the unreleased envelope and release_elapsed
\* is the time since the release; at the first update_state that takes
\* elapsed past A + D the value is None if that time has reached R or the
\* sustain level is 0, and sustain_level * (1 - release_elapsed / R)
\* otherwise.
C27_ReleaseInAttackOrDecay ==
    ReleasedEarly =>
        LET rt == hist.elapsed - hist.release_time
        IN /\ hist.elapsed <= A_ + D_ =>
                 /\ envelope.value = Reference(hist.elapsed, FALSE, 0)
                 /\ envelope.release_elapsed = rt
           /\ (last_op = "update_state"
                 /\ hist.elapsed > A_ + D_
                 /\ hist.elapsed - last_arg <= A_ + D_) =>
                 /\ envelope.release_elapsed = rt
                 /\ envelope.value =
                       IF rt >= R_ \/ SL_ = ZERO THEN None
                       ELSE RMul(SL_, RSub(ONE, Rat(rt, R_)))

\* An envelope released during its decay has just passed the end of the
\* decay, half of the way through its release.
C27_Witness ==
    /\ ReleasedEarly
    /\ hist.release_time > A_
    /\ D_ > 0
    /\ last_op = "update_state"
    /\ hist.elapsed > A_ + D_
    /\ hist.elapsed - last_arg <= A_ + D_
    /\ envelope.value = RMul(SL_, <<1, 2>>)
    /\ SL_ # ZERO

\* C28: from every state of the envelope, update_state(a) followed by
\* update_state(b) leaves the same value as one update_state(a + b), also
\* when the first call closes the envelope.
C28_TickGranularity ==
    \A a, b \in 0..MaxDelta :
        Envelope_update_state(Envelope_update_state(envelope, a), b).value
            = Envelope_update_state(envelope, a + b).value

\* An open, released envelope that one update_state closes, so that the
\* second call of two is the one made on a closed envelope; and positive
\* durations a and b whose first call leaves it open in its release.
C28_Witness ==
    /\ last_op = "update_state"
    /\ envelope.released
    /\ envelope.value # None
    /\ envelope.elapsed > A_ + D_
    /\ Envelope_update_state(envelope, 1).value \notin {None, envelope.value}
    /\ Envelope_update_state(envelope, MaxDelta).value = None

\* C29: a closed envelope has completed its attack; a new envelope has not,
\* even with attack = 0; and an envelope that has completed its attack has
\* still completed it after any update_state or release.
C29_AttackComplete ==
    /\ [](/\ envelope.value = None => attack_complete(envelope)
          /\ last_op = "new" => ~attack_complete(envelope))
    /\ [][attack_complete(envelope) => attack_complete(envelope')]_vars

\* An envelope with attack = 0, new a moment ago, has been advanced and
\* released, has closed and has completed its attack.
C29_Witness ==
    /\ A_ = 0
    /\ envelope.value = None
    /\ envelope.released
    /\ SL_ # ZERO
    /\ attack_complete(envelope)
    /\ last_op = "release"

\* ------------------------------------- one envelope, advanced on every frame
\* The caller of update_state is the frame loop: it calls update_state with
\* the time since the last frame for as long as the program runs.  The
\* model follows an envelope up to MaxTime and, once released, until it has
\* closed.  EnvFrameCall is the caller's side of a frame: the call it makes
\* and its record of the calls made.
EnvFrameCall(delta_t) ==
    /\ \/ hist.elapsed + delta_t <= MaxTime
       \/ envelope.released /\ envelope.value # None
    /\ hist' = [hist EXCEPT
                    !.elapsed = @ + delta_t,
                    !.release_elapsed = IF envelope.released THEN @ + delta_t ELSE @,
                    !.seen_released = envelope.released,
                    !.prev_op = last_op,
                    !.prev_value = envelope.value]
    /\ last_op' = "update_state"
    /\ last_arg' = delta_t

EnvFrame(delta_t) ==
    /\ EnvFrameCall(delta_t)
    /\ envelope' = Envelope_update_state(envelope, delta_t)
    /\ UNCHANGED <<slots, event_buffer, organ, color_accum>>

EnvFrames == \E delta_t \in 0..MaxDelta : EnvFrame(delta_t)

EnvPositiveFrameCalls == \E delta_t \in 1..MaxDelta : EnvFrameCall(delta_t)

EnvFramesNext == EnvFrames \/ EnvRelease

\* Frames of positive duration keep coming: the frame loop keeps calling.
EnvFramesSpec ==
    /\ EnvInit
    /\ [][EnvFramesNext]_vars
    /\ WF_<<hist, last_op, last_arg>>(EnvPositiveFrameCalls)

\* C30: once release() has been called, the value becomes None if
\* update_state keeps being called with a positive delta_t, and then stays
\* None; an envelope with a sustain level above 0 that has not been
\* released is not closed.
C30_ReleasedCloses ==
    /\ (hist.release_time # -1) ~> (envelope.value = None)
    /\ [][envelope.value = None => envelope'.value = None]_vars
    /\ []((SL_ # ZERO /\ hist.release_time = -1) => envelope.value # None)

\* An envelope with a sustain level above 0 and a release of the longest
\* duration, released at sustain, has been advanced until it closed.
C30_Witness ==
    /\ SL_ # ZERO
    /\ R_ = MaxDur
    /\ hist.release_time > A_ + D_
    /\ last_op = "update_state"
    /\ hist.prev_value # None
    /\ envelope.value = None

\* C32: add puts the event in the empty slot of the lowest index and
\* leaves the length of the vector as it is, or, with no empty slot,
\* appends one slot; so the vector is never longer than the largest number
\* of events that were active at once so far.
C32_BoundedUnderChurn ==
    /\ [](Len(slots) <= hist.peak)
    /\ [][(last_op' = "add" /\ ~hist'.panicked) =>
             LET empty == {i \in 1..Len(slots) : slots[i] = None}
                 id == last_arg' + 1
             IN IF empty # {}
                THEN /\ id \in empty
                     /\ \A j \in empty : id <= j
                     /\ slots'[id] # None
                     /\ Len(slots') = Len(slots)
                ELSE /\ id = Len(slots) + 1
                     /\ Len(slots') = Len(slots) + 1
                     /\ slots'[id] # None]_vars

\* Two events were active at once and both are gone; the add made since
\* was given the first of the two empty slots, and the vector is as long
\* as it was.
C32_Witness ==
    /\ last_op = "add"
    /\ ~hist.panicked
    /\ hist.peak = 2
    /\ Len(slots) = 2
    /\ last_arg = 0
    /\ slots[1] # None
    /\ slots[2] = None

\* --------------------------------------- the organ, advanced on every frame
\* The frame loop calls update_state with the time since the last frame for
\* as long as the program runs; notes come and go in between.  hist.frame
\* is the last bit of the loop's frame counter.  The generator is as made
\* or has had its sustain level set to 0.  An event that nothing will close
\* (not released, sustain level above 0) is followed up to MaxOrganTime.
FrameGenerators ==
    {EnvelopeGeneratorState_default,
     update_from_state_change(EnvelopeGeneratorState_default,
                              [field |-> "sustain_level", v |-> ZERO])}

FramesInit ==
    /\ \E b \in OrganBanks, g \in FrameGenerators :
          organ = [ColorOrgan_new(FixtureCount, b) EXCEPT !.envelope_gen = g]
    /\ hist = [frame |-> 0]
    /\ last_op = "new"
    /\ last_arg = 0
    /\ envelope = Envelope_new(TestParams)
    /\ slots = <<>>
    /\ event_buffer = <<>>
    /\ color_accum = HsluvColor_default

FramesNoteOn ==
    \E note \in Notes :
        LET o == ColorOrgan_note_on(organ, note.color, note.release_id)
        IN /\ Cardinality(DOMAIN organ.heap) < MaxEvents
           /\ \A i \in 1..Len(o.fixture_state) : Len(o.fixture_state[i]) <= MaxBuf
           /\ organ' = o
           /\ last_op' = "note_on"
           /\ last_arg' = note.release_id
           /\ UNCHANGED <<hist, envelope, slots, event_buffer, color_accum>>

FramesNoteOff ==
    \E release_id \in ReleaseIds :
        /\ organ' = ColorOrgan_note_off(organ, release_id)
        /\ last_op' = "note_off"
        /\ last_arg' = release_id
        /\ UNCHANGED <<hist, envelope, slots, event_buffer, color_accum>>

\* The caller's side of a frame: the call it makes and its frame counter.
FrameCall(delta_t) ==
    /\ \A h \in DOMAIN organ.heap :
          LET e == organ.heap[h].event.envelope
          IN \/ e.value = None
             \/ e.released
             \/ e.parameters.sustain_level = ZERO
             \/ e.elapsed + delta_t <= MaxOrganTime
    /\ hist' = [frame |-> 1 - hist.frame]
    /\ last_op' = "update_state"
    /\ last_arg' = delta_t

Frame(delta_t) ==
    /\ FrameCall(delta_t)
    /\ organ' = ColorOrgan_update_state(organ, delta_t)
    /\ UNCHANGED <<envelope, slots, event_buffer, color_accum>>

Frames == \E delta_t \in Ticks \ {0} : Frame(delta_t)

FrameCalls == \E delta_t \in Ticks \ {0} : FrameCall(delta_t)

FramesNext == FramesNoteOn \/ FramesNoteOff \/ Frames

\* Frames of positive duration keep coming: the frame loop keeps calling.
FramesSpec ==
    /\ FramesInit
    /\ [][FramesNext]_vars
    /\ WF_<<hist, last_op, last_arg>>(FrameCalls)

\* Every event that is kept allocated is released or has a sustain level
\* of 0.
AllClosing ==
    \A h \in DOMAIN organ.heap :
        LET e == organ.heap[h].event.envelope
        IN e.released \/ e.parameters.sustain_level = ZERO

\* Every buffer is empty, no event is allocated and every fixture renders
\* black.
AllDark ==
    /\ \A i \in 1..Len(organ.fixture_state) :
          /\ organ.fixture_state[i] = <<>>
          /\ ColorOrgan_render(organ, i - 1) = HsluvColor_default
    /\ DOMAIN organ.heap = {}

\* C31: while the frames keep coming, if from some point on no note_on
\* arrives and time and again every buffered event is released or has a
\* sustain level of 0, then from some point on every fixture buffer is
\* empty, no event has a strong holder and every fixture renders black.
C31_EventuallyDropped ==
    (<>[][last_op' # "note_on"]_vars /\ []<>AllClosing) => <>[]AllDark

\* A frame has just dropped the last events: the store still lists two or
\* more events that were allocated when the frame began, and now every
\* buffer is empty and no event is allocated.
C31_Witness ==
    /\ AllDark
    /\ last_op = "update_state"
    /\ Len(organ.event_store) >= 2
====
